---------------------------- MODULE Spec2Model ----------------------------
(***************************************************************************)
(* Model of TABULATED/table_gen.py: the Lorentz-Berthelot mixer, the       *)
(* Lennard-Jones evaluator and the table writer                            *)
(* generate_interaction_tables, run as one process per execution.          *)
(*                                                                         *)
(* Numbers.  Python floats are modelled by exact rationals [n, d] in       *)
(* lowest terms; d = 0 stands for float('inf').  Lengths (sigma, the grid  *)
(* bounds, current_r) are counted in ticks of 1e-10, so that the skip      *)
(* threshold 1e-10 of the data loop is exactly one tick and a sample can   *)
(* lie below it, on it and above it.  Rounding error of the binary         *)
(* floating-point operations is not modelled.                              *)
(***************************************************************************)
EXTENDS Integers, Sequences, FiniteSets, TLC

\* ----------------------------------------------------------------- bounds
\* The atom list holds at most MaxAtoms entries.
MaxAtoms == 2
\* start_r and end_r range over -1 .. MaxR ticks.
MaxR == 3
\* delta_r ranges over -MaxStep .. MaxStep ticks (0 included).
MaxStep == 2

\* ------------------------------------------------------ program constants
\* The data loop skips a sample with current_r <= 1e-10: one tick.
Threshold == 1
\* One unit of the fourth decimal place of a distance is 1e-4 = 10^6 ticks.
TicksPerFourthDecimal == 1000000
\* An energy or a force is written with six decimals: 10^6 units in one.
SixthDecimal == 1000000

\* ------------------------------------------------------------- arithmetic
\* The arithmetic is written as functions, which take evaluated arguments.
Abs(x) == IF x < 0 THEN -x ELSE x

GCD[a \in Nat, b \in Nat] == IF b = 0 THEN a ELSE GCD[b, a % b]

\* A float: the rational n/d; d = 0 only for float('inf').
Float == [n : Int, d : Nat]

\* The rational n/d (d # 0) in lowest terms with a positive denominator.
Rat[n \in Int, d \in Int] ==
    LET g == GCD[Abs(n), Abs(d)]
        s == IF d < 0 THEN -1 ELSE 1
    IN  [n |-> s * (n \div g), d |-> Abs(d) \div g]

RInt(i) == [n |-> i, d |-> 1]

\* float('inf')
Inf == [n |-> 1, d |-> 0]

RMul[x \in Float, y \in Float] == Rat[x.n * y.n, x.d * y.d]

RDiv[x \in Float, y \in Float] == Rat[x.n * y.d, x.d * y.n]

\* x - y over the least common denominator.
RSub[x \in Float, y \in Float] ==
    LET l == (x.d \div GCD[x.d, y.d]) * y.d
    IN  Rat[x.n * (l \div x.d) - y.n * (l \div y.d), l]

\* x ** e
RPow[x \in Float, e \in Nat] == IF e = 0 THEN RInt(1) ELSE RMul[x, RPow[x, e - 1]]

\* math.sqrt on a non-negative rational whose numerator and denominator are
\* perfect squares (every product of two epsilons of AtomPool is one).
ISqrt[i \in Nat] == CHOOSE r \in 0..i : r * r <= i /\ i < (r + 1) * (r + 1)
RSqrt[x \in Float] == Rat[ISqrt[x.n], ISqrt[x.d]]

\* floor(x), which int(x) is not.
IntFloor(x) == x.n \div x.d

\* int(x): truncation toward zero.
IntTrunc(x) == IF x.n >= 0 THEN x.n \div x.d ELSE -((-x.n) \div x.d)

\* range(i) runs max(0, i) times.
RangeLen(i) == IF i > 0 THEN i ELSE 0

\* ------------------------------------------------------------ formatting
\* x rounded to the nearest integer, ties to even: what a fixed-point
\* format does with the digits it drops.
RoundHalfEven[x \in Float] ==
    LET q == x.n \div x.d
        rem == x.n - q * x.d
    IN  IF 2 * rem < x.d THEN q
        ELSE IF 2 * rem > x.d THEN q + 1
        ELSE IF q % 2 = 0 THEN q ELSE q + 1

\* The first digits of rem/d (0 <= rem < d), as many as scale has zeros,
\* with the remainder left; one decimal digit at a time.
ScaleDigits[acc \in Nat, rem \in Nat, d \in Nat, scale \in Nat] ==
    IF scale = 1 THEN [q |-> acc, rem |-> rem]
    ELSE ScaleDigits[acc * 10 + (rem * 10) \div d, (rem * 10) % d, d, scale \div 10]

\* f"{x:.6f}": the sign, the integer part and the six decimals of x, rounded
\* half-even on the seventh.
Fmt6[x \in Float] ==
    LET a == Abs(x.n)
        q == a \div x.d
        s == ScaleDigits[0, a - q * x.d, x.d, SixthDecimal]
        frac == s.q + RoundHalfEven[[n |-> s.rem, d |-> x.d]]
    IN  [neg  |-> x.n < 0,
         int  |-> IF frac = SixthDecimal THEN q + 1 ELSE q,
         frac |-> IF frac = SixthDecimal THEN 0 ELSE frac]

\* f"{current_r:.4f}": a distance of r ticks in units of the fourth decimal.
Fmt4[r \in Int] == RoundHalfEven[Rat[r, TicksPerFourthDecimal]]

\* ---------------------------------------------------------- pure functions
\* The geometric mean of the mixer; the arithmetic mean is the slip of
\* mixing epsilon the way sigma is mixed.
BerthelotEpsilonArithmetic(e1, e2) == Rat[e1 + e2, 2]
BerthelotEpsilon(e1, e2) == RSqrt[RInt(e1 * e2)]

\* lorentz_berthelot(atom1, atom2): (sigma_mix, epsilon_mix).
lorentz_berthelot(atom1, atom2) ==
    [sigma_mix   |-> Rat[atom1.sigma + atom2.sigma, 2],
     epsilon_mix |-> BerthelotEpsilon(atom1.epsilon, atom2.epsilon)]

\* compute_lennard_jones(epsilon, sigma, r): (E, F); r in ticks.
compute_lennard_jones(epsilon, sigma, r) ==
    IF r = 0 THEN [E |-> Inf, F |-> Inf]
    ELSE LET sr6  == RPow[RDiv[sigma, RInt(r)], 6]
             sr12 == RPow[sr6, 2]
         IN  [E |-> RMul[RMul[RInt(4), epsilon], RSub[sr12, sr6]],
              F |-> RMul[RDiv[RMul[RInt(24), epsilon], RInt(r)],
                         RSub[RMul[RInt(2), sr12], sr6]]]

\* itertools.combinations_with_replacement(range(n), 2), in its order, by
\* list position (1-based); itertools.combinations leaves the self-pairs out.
RECURSIVE PairsFrom(_, _, _, _)
PairsFrom(i, j, n, strict) ==
    IF i > n THEN <<>>
    ELSE IF j > n THEN PairsFrom(i + 1, IF strict THEN i + 2 ELSE i + 1, n, strict)
    ELSE <<(<<i, j>>)>> \o PairsFrom(i, j + 1, n, strict)

combinations(n) == PairsFrom(1, 2, n, TRUE)
combinations_with_replacement(n) == PairsFrom(1, 1, n, FALSE)

\* pair_name = f"{a1['name']}{a2['name']}"; the reversed concatenation is
\* the slip of swapping the two names.
pair_name_reversed(a1, a2) == a2.name \o a1.name
pair_name(a1, a2) == a1.name \o a2.name

\* One call of the evaluator by the writer: its arguments and its result.
Call(q, epsilon, sigma, r) ==
    LET v == compute_lennard_jones(epsilon, sigma, r)
    IN  [pair |-> q, epsilon |-> epsilon, sigma |-> sigma, r |-> r,
         E |-> v.E, F |-> v.F]

\* The lines the writer hands to f.write.
HeaderLine(name) == <<"TYPE", name>>
RowLine(r, E, F) == <<"ROW", Fmt4[r], Fmt6[E], Fmt6[F]>>

\* steps = int((end_r - start_r) / delta_r), delta_r # 0.
StepsOf(s, e, d) == IntTrunc(RDiv[RInt(e - s), RInt(d)])

\* The data loop's guard "current_r <= 1e-10"; "< 1e-10" and "== 0" are
\* the guards it could be mistaken for.
SkipsBelowOnly(r) == r < Threshold
SkipsZeroOnly(r) == r = 0
Skips(r) == r <= Threshold

\* `for _ in range(steps + 1)`: the loop goes on while the counter is below
\* steps + 1.  A distance-driven `while current_r <= end_r` would not be
\* bounded by the counter.
LoopWhileDistance(i, st, r, e) == r <= e
LoopContinues(i, st, r, e) == i < st + 1

\* open(filename, 'w') truncates; mode 'a' would keep the content.
OpenAppend(content) == content
OpenWrite(content) == <<>>

\* The with-statement closes the handle on every exit of its body; without
\* it an exception would leave the handle as it is.
ExitLeaks(h) == h
WithExit(h) == "closed"

\* An exception leaving generate_interaction_tables ends the run; were it
\* swallowed, the run would go on to the status lines.
RaiseSwallowed == "print1"
Raise == "error"

\* ------------------------------------------------------------------ state
\* Atom definitions the lists are drawn from: names of the source's
\* configuration, epsilon and sigma from small sets (sigma in ticks).
AtomPool ==
    { [name |-> "OW0", epsilon |-> 4, sigma |-> 2],
      [name |-> "HW0", epsilon |-> 0, sigma |-> 0] }

AtomLists == UNION { [1..n -> AtomPool] : n \in 0..MaxAtoms }

VARIABLES
    atoms_list, start_r, end_r, delta_r,   \* the arguments of the call
    pc,                                    \* position in the function
    steps, pairs, p,                       \* line 37, line 40, the pair loop
    sigma_ij, epsilon_ij,                  \* line 45
    current_r, k,                          \* lines 55-56: distance, counter
    disk,                                  \* the lines of the output file
    f,                                     \* the file handle
    console,                               \* what print has written
    calls,                                 \* every compute_lennard_jones call
    visited,                               \* every sample the data loop saw
    prior                                  \* whose content the run found

vars == <<atoms_list, start_r, end_r, delta_r, pc, steps, pairs, p, sigma_ij,
          epsilon_ij, current_r, k, disk, f, console, calls, visited, prior>>

config == <<atoms_list, start_r, end_r, delta_r>>

Terminal == {"done", "error"}

Init ==
    /\ atoms_list \in AtomLists
    /\ start_r \in (-1)..MaxR
    /\ end_r \in (-1)..MaxR
    /\ delta_r \in (-MaxStep)..MaxStep
    /\ disk = <<>>
    /\ prior = "nothing"
    /\ pc = "start"
    /\ steps = 0
    /\ pairs = <<>>
    /\ p = 1
    /\ sigma_ij = RInt(0)
    /\ epsilon_ij = RInt(0)
    /\ current_r = 0
    /\ k = 0
    /\ f = "unopened"
    /\ console = <<>>
    /\ calls = <<>>
    /\ visited = <<>>

\* ---------------------------------------------------------------- actions
\* Lines 37-40: steps and the list of pairs.
Begin ==
    /\ pc = "start"
    /\ delta_r # 0
    /\ steps' = StepsOf(start_r, end_r, delta_r)
    /\ pairs' = combinations_with_replacement(Len(atoms_list))
    /\ pc' = "open"
    /\ UNCHANGED <<config, prior, p, sigma_ij, epsilon_ij, current_r, k, disk, f,
                   console, calls, visited>>

\* Line 37 with delta_r = 0: the division raises ZeroDivisionError.
BeginDivZero ==
    /\ pc = "start"
    /\ delta_r = 0
    /\ pc' = Raise
    /\ UNCHANGED <<config, prior, steps, pairs, p, sigma_ij, epsilon_ij, current_r, k,
                   disk, f, console, calls, visited>>

\* Line 42: open(filename, 'w') succeeds.
Open ==
    /\ pc = "open"
    /\ disk' = OpenWrite(disk)
    /\ f' = "open"
    /\ pc' = "pair"
    /\ UNCHANGED <<config, prior, steps, pairs, p, sigma_ij, epsilon_ij, current_r, k,
                   console, calls, visited>>

\* Line 42: open raises (permissions, invalid path); nothing was opened.
OpenFail ==
    /\ pc = "open"
    /\ pc' = Raise
    /\ UNCHANGED <<config, prior, steps, pairs, p, sigma_ij, epsilon_ij, current_r, k,
                   disk, f, console, calls, visited>>

\* Lines 43-55: the next pair's mixed parameters and header line.
WriteHeader ==
    /\ pc = "pair"
    /\ p <= Len(pairs)
    /\ LET a1 == atoms_list[pairs[p][1]]
           a2 == atoms_list[pairs[p][2]]
           m  == lorentz_berthelot(a1, a2)
       IN  /\ sigma_ij' = m.sigma_mix
           /\ epsilon_ij' = m.epsilon_mix
           /\ disk' = Append(disk, HeaderLine(pair_name(a1, a2)))
    /\ current_r' = start_r
    /\ k' = 0
    /\ pc' = "loop"
    /\ UNCHANGED <<config, prior, steps, pairs, p, f, console, calls, visited>>

\* Line 49: f.write raises; the with-statement closes the handle.
WriteHeaderFail ==
    /\ pc = "pair"
    /\ p <= Len(pairs)
    /\ LET m == lorentz_berthelot(atoms_list[pairs[p][1]], atoms_list[pairs[p][2]])
       IN  /\ sigma_ij' = m.sigma_mix
           /\ epsilon_ij' = m.epsilon_mix
    /\ f' = WithExit(f)
    /\ pc' = Raise
    /\ UNCHANGED <<config, prior, steps, pairs, p, current_r, k, disk, console, calls,
                   visited>>

\* Lines 57-59: a sample at or below the threshold is skipped.
SkipSample ==
    /\ pc = "loop"
    /\ LoopContinues(k, steps, current_r, end_r)
    /\ Skips(current_r)
    /\ visited' = Append(visited, [pair |-> p, r |-> current_r, row |-> FALSE])
    /\ current_r' = current_r + delta_r
    /\ k' = k + 1
    /\ UNCHANGED <<config, prior, pc, steps, pairs, p, sigma_ij, epsilon_ij, disk, f,
                   console, calls>>

\* Lines 61-64: a retained sample is evaluated and written.
WriteRow ==
    /\ pc = "loop"
    /\ LoopContinues(k, steps, current_r, end_r)
    /\ ~Skips(current_r)
    /\ LET v == compute_lennard_jones(epsilon_ij, sigma_ij, current_r)
       IN  /\ disk' = Append(disk, RowLine(current_r, v.E, v.F))
           /\ calls' = Append(calls, Call(p, epsilon_ij, sigma_ij, current_r))
    /\ visited' = Append(visited, [pair |-> p, r |-> current_r, row |-> TRUE])
    /\ current_r' = current_r + delta_r
    /\ k' = k + 1
    /\ UNCHANGED <<config, prior, pc, steps, pairs, p, sigma_ij, epsilon_ij, f, console>>

\* Line 63: f.write raises after the evaluation; the handle is closed.
WriteRowFail ==
    /\ pc = "loop"
    /\ LoopContinues(k, steps, current_r, end_r)
    /\ ~Skips(current_r)
    /\ calls' = Append(calls, Call(p, epsilon_ij, sigma_ij, current_r))
    /\ f' = WithExit(f)
    /\ pc' = Raise
    /\ UNCHANGED <<config, prior, steps, pairs, p, sigma_ij, epsilon_ij, current_r, k,
                   disk, console, visited>>

\* Line 56: range(steps + 1) is exhausted; on to the next pair.
EndLoop ==
    /\ pc = "loop"
    /\ ~LoopContinues(k, steps, current_r, end_r)
    /\ p' = p + 1
    /\ pc' = "pair"
    /\ UNCHANGED <<config, prior, steps, pairs, sigma_ij, epsilon_ij, current_r, k,
                   disk, f, console, calls, visited>>

\* Line 43 exhausted: the with-block ends and the file is closed.
Close ==
    /\ pc = "pair"
    /\ p > Len(pairs)
    /\ f' = WithExit(f)
    /\ pc' = "print1"
    /\ UNCHANGED <<config, prior, steps, pairs, p, sigma_ij, epsilon_ij, current_r, k,
                   disk, console, calls, visited>>

\* The close at the end of the with-block raises (the flush fails); the
\* handle is released all the same.
CloseFail ==
    /\ pc = "pair"
    /\ p > Len(pairs)
    /\ f' = WithExit(f)
    /\ pc' = Raise
    /\ UNCHANGED <<config, prior, steps, pairs, p, sigma_ij, epsilon_ij, current_r, k,
                   disk, console, calls, visited>>

\* Line 68: print(f"Computed {len(pairs)} interaction pairs.")
PrintCount ==
    /\ pc = "print1"
    /\ console' = Append(console, <<"Computed", Len(pairs)>>)
    /\ pc' = "print2"
    /\ UNCHANGED <<config, prior, steps, pairs, p, sigma_ij, epsilon_ij, current_r, k,
                   disk, f, calls, visited>>

\* Line 69: print(f"Data written to {filename}")
PrintFilename ==
    /\ pc = "print2"
    /\ console' = Append(console, <<"Data written to", "OPC_table_01.inp">>)
    /\ pc' = "done"
    /\ UNCHANGED <<config, prior, steps, pairs, p, sigma_ij, epsilon_ij, current_r, k,
                   disk, f, calls, visited>>

\* Lines 86-87: the script is run again with the same configuration; the
\* new process starts afresh and finds the file the last run left.
Rerun ==
    /\ pc \in Terminal
    /\ pc' = "start"
    /\ steps' = 0
    /\ pairs' = <<>>
    /\ p' = 1
    /\ sigma_ij' = RInt(0)
    /\ epsilon_ij' = RInt(0)
    /\ current_r' = 0
    /\ k' = 0
    /\ f' = "unopened"
    /\ console' = <<>>
    /\ calls' = <<>>
    /\ visited' = <<>>
    /\ prior' = "own"
    /\ UNCHANGED <<config, disk>>

\* One run of the script.
Run ==
    \/ Begin
    \/ BeginDivZero
    \/ Open
    \/ OpenFail
    \/ WriteHeader
    \/ WriteHeaderFail
    \/ SkipSample
    \/ WriteRow
    \/ WriteRowFail
    \/ EndLoop
    \/ Close
    \/ CloseFail
    \/ PrintCount
    \/ PrintFilename

Next == Run \/ Rerun

Spec == Init /\ [][Next]_vars

\* A started run is not suspended: the interpreter executes the next
\* statement whenever there is one.
FairSpec == Spec /\ WF_vars(Run)

\* ------------------------------------------------------- derived notions
\* The handle was opened in this run: disk holds what this run wrote.
Opened == f # "unopened"

\* The pair loop is over: every block was written.
AllWritten == pc \in {"print1", "print2", "done"}

\* N(N+1)/2
NPairs(n) == (n * (n + 1)) \div 2

\* The place of the pair of positions (i, j), i <= j, in the lexicographic
\* enumeration of the pairs over 1..n.
PairIndex(i, j, n) == (i - 1) * n - ((i - 1) * (i - 2)) \div 2 + (j - i + 1)

\* The indices of the header lines of the file, and their pair names.
HeaderIdx == SelectSeq([i \in 1..Len(disk) |-> i], LAMBDA i : disk[i][1] = "TYPE")
HeaderNames == [x \in 1..Len(HeaderIdx) |-> disk[HeaderIdx[x]][2]]

\* The data rows of the q-th block of the file.
Block(q) ==
    IF q > Len(HeaderIdx) THEN <<>>
    ELSE SubSeq(disk, HeaderIdx[q] + 1,
                IF q < Len(HeaderIdx) THEN HeaderIdx[q + 1] - 1 ELSE Len(disk))

\* The samples the data loop of the q-th pair has seen, and those among
\* them that it retained.
VisitedOf(q) == SelectSeq(visited, LAMBDA v : v.pair = q)
RetainedOf(q) == SelectSeq(VisitedOf(q), LAMBDA v : v.row)

\* The q-th pair has an atom with epsilon = 0.
HasZeroEpsilon(q) ==
    \/ atoms_list[pairs[q][1]].epsilon = 0
    \/ atoms_list[pairs[q][2]].epsilon = 0

\* q is floor(a / b), and q is a / b truncated toward zero (b # 0).
IsFloor(q, a, b) ==
    IF b > 0 THEN q * b <= a /\ a < (q + 1) * b
    ELSE q * b >= a /\ a > (q + 1) * b
IsTrunc(q, a, b) ==
    /\ Abs(q) * Abs(b) <= Abs(a)
    /\ Abs(a) < (Abs(q) + 1) * Abs(b)
    /\ (q > 0 => a * b > 0)
    /\ (q < 0 => a * b < 0)

\* The file a complete run writes for the configuration, block by block.
RECURSIVE ExpectedRows(_, _, _)
ExpectedRows(m, j, last) ==
    IF j > last THEN <<>>
    ELSE LET r == start_r + j * delta_r
             v == compute_lennard_jones(m.epsilon_mix, m.sigma_mix, r)
         IN  (IF r > Threshold THEN <<RowLine(r, v.E, v.F)>> ELSE <<>>)
             \o ExpectedRows(m, j + 1, last)

RECURSIVE ExpectedBlocks(_)
ExpectedBlocks(ps) ==
    IF ps = <<>> THEN <<>>
    ELSE LET a1 == atoms_list[ps[1][1]]
             a2 == atoms_list[ps[1][2]]
         IN  <<HeaderLine(a1.name \o a2.name)>>
             \o ExpectedRows(lorentz_berthelot(a1, a2), 0,
                             StepsOf(start_r, end_r, delta_r))
             \o ExpectedBlocks(Tail(ps))

ExpectedFile == ExpectedBlocks(combinations_with_replacement(Len(atoms_list)))

\* ----------------------------------------------------------------- claims
\* C1: the file gets exactly one TYPE header for each pair of list positions
\* (i, j) with i <= j and none for any other pair: never more than
\* N(N+1)/2 headers, and once the pair loop is over exactly N(N+1)/2, each
\* pair name as often as there are position pairs i <= j carrying it.
C1_OneHeaderPerPair ==
    Opened =>
        LET n == Len(atoms_list)
        IN  /\ Len(HeaderIdx) <= NPairs(n)
            /\ AllWritten =>
                 /\ Len(HeaderIdx) = NPairs(n)
                 /\ \A a \in AtomPool, b \in AtomPool :
                      Cardinality({x \in 1..Len(HeaderIdx) :
                                     HeaderNames[x] = a.name \o b.name})
                      = Cardinality({ij \in (1..n) \X (1..n) :
                                     /\ ij[1] <= ij[2]
                                     /\ atoms_list[ij[1]].name = a.name
                                     /\ atoms_list[ij[2]].name = b.name})

\* A finished run over a list that names the same atom twice wrote three
\* blocks.
C1_Witness ==
    /\ pc = "done"
    /\ Len(atoms_list) = 2
    /\ atoms_list[1] = atoms_list[2]
    /\ Len(HeaderIdx) = 3

\* C2, as stated: for every pair the data loop visits exactly steps+1
\* samples, sample j at start + j*step; a sample becomes a row iff its
\* distance is above the threshold, a skipped sample advances the grid all
\* the same, and the rows of the block number steps+1 minus the skipped
\* samples.
C2_StepsPlusOneSamples ==
    Opened =>
        \A q \in 1..Len(pairs) :
            LET vs == VisitedOf(q)
            IN  /\ q < p => Len(vs) = steps + 1
                /\ \A j \in 1..Len(vs) :
                     /\ vs[j].r = start_r + (j - 1) * delta_r
                     /\ vs[j].row = (vs[j].r > Threshold)
                /\ q < p =>
                     Len(Block(q)) = (steps + 1) - Len(vs) + Len(RetainedOf(q))

\* C2, amended: for every pair the data loop visits exactly max(0, steps+1)
\* samples, sample j at start + j*step; a sample becomes a row iff its
\* distance is above the threshold, a skipped sample advances the grid all
\* the same, and the rows of the block number max(0, steps+1) minus the
\* skipped samples.
C2_GridSamples ==
    Opened =>
        \A q \in 1..Len(pairs) :
            LET vs == VisitedOf(q)
                total == RangeLen(steps + 1)
            IN  /\ q < p => Len(vs) = total
                /\ q > p => Len(vs) = 0
                /\ q = p => Len(vs) <= total
                /\ (q = p /\ pc = "loop") =>
                     /\ Len(vs) = k
                     /\ current_r = start_r + k * delta_r
                /\ \A j \in 1..Len(vs) :
                     /\ vs[j].r = start_r + (j - 1) * delta_r
                     /\ vs[j].row = (vs[j].r > Threshold)
                /\ Len(Block(q)) = Len(RetainedOf(q))
                /\ \A j \in 1..Len(Block(q)) :
                     Block(q)[j][2] = Fmt4[RetainedOf(q)[j].r]
                /\ q < p =>
                     Len(Block(q)) = total - Cardinality({j \in 0..(total - 1) :
                                        start_r + j * delta_r <= Threshold})

\* A finished run skipped a sample lying exactly on the threshold, skipped
\* one below it and wrote one above it.
C2_Witness ==
    /\ pc = "done"
    /\ \E i \in 1..Len(visited) : visited[i].r = Threshold /\ ~visited[i].row
    /\ \E i \in 1..Len(visited) : visited[i].r < Threshold /\ ~visited[i].row
    /\ \E i \in 1..Len(visited) : visited[i].row

\* C3, as stated: steps is floor((end - start) / step) for every grid with
\* step # 0, and every finished data loop saw floor(..)+1 samples.
C3_StepsIsFloor ==
    (pc \notin {"start"} /\ delta_r # 0) =>
        /\ IsFloor(steps, end_r - start_r, delta_r)
        /\ \A q \in 1..Len(pairs) :
             (Opened /\ q < p) => Len(VisitedOf(q)) = RangeLen(steps + 1)

\* C3, amended: steps is (end - start) / step truncated toward zero, and
\* every finished data loop saw max(0, steps+1) samples.
C3_StepsIsTruncation ==
    (pc \notin {"start"} /\ delta_r # 0) =>
        /\ IsTrunc(steps, end_r - start_r, delta_r)
        /\ \A q \in 1..Len(pairs) :
             (Opened /\ q < p) => Len(VisitedOf(q)) = RangeLen(steps + 1)

\* A finished run over a grid whose quotient is negative and not an
\* integer saw a sample.
C3_Witness ==
    /\ pc = "done"
    /\ delta_r # 0
    /\ (end_r - start_r) * delta_r < 0
    /\ (end_r - start_r) % Abs(delta_r) # 0
    /\ Len(visited) > 0

\* C4: the evaluator is never called with r <= 1e-10, no call returns the
\* infinite sentinel, and every row of the file comes from such a call.
C4_NoDegenerateCall ==
    /\ \A i \in 1..Len(calls) :
         /\ calls[i].r > Threshold
         /\ calls[i].E # Inf
         /\ calls[i].F # Inf
         /\ calls[i].E.d # 0
         /\ calls[i].F.d # 0
    /\ Opened =>
         Cardinality({i \in 1..Len(disk) : disk[i][1] = "ROW"}) <= Len(calls)

\* A finished run whose grid passed through r = 0 and through a negative
\* distance called the evaluator.
C4_Witness ==
    /\ pc = "done"
    /\ \E i \in 1..Len(visited) : visited[i].r = 0
    /\ \E i \in 1..Len(visited) : visited[i].r < 0
    /\ Len(calls) > 0

\* C5: the headers stand in the enumeration order of the position pairs
\* (1,1), (1,2), ..., (1,N), (2,2), ...: the header of the pair (i, j),
\* i <= j, is at place PairIndex(i, j) and names atom i, then atom j.
C5_HeaderOrder ==
    Opened =>
        LET n == Len(atoms_list)
        IN  /\ AllWritten => Len(HeaderIdx) = NPairs(n)
            /\ \A i \in 1..n, j \in 1..n :
                 (i <= j /\ PairIndex(i, j, n) <= Len(HeaderIdx)) =>
                     disk[HeaderIdx[PairIndex(i, j, n)]]
                       = <<"TYPE", atoms_list[i].name \o atoms_list[j].name>>

\* A finished run over [OW0, HW0] wrote OW0OW0, OW0HW0, HW0HW0.
C5_Witness ==
    /\ pc = "done"
    /\ Len(atoms_list) = 2
    /\ atoms_list[1].name = "OW0"
    /\ atoms_list[2].name = "HW0"
    /\ HeaderNames = <<"OW0OW0", "OW0HW0", "HW0HW0">>

\* C6: a pair with an atom of epsilon 0 has mixed epsilon 0, whatever the
\* other atom's epsilon and sigma, and every row of its block has E = 0 and
\* F = 0.
C6_ZeroEpsilon ==
    /\ \A a \in AtomPool, b \in AtomPool :
         (a.epsilon = 0 \/ b.epsilon = 0) =>
             lorentz_berthelot(a, b).epsilon_mix = RInt(0)
    /\ (pc = "loop" /\ HasZeroEpsilon(p)) => epsilon_ij = RInt(0)
    /\ \A i \in 1..Len(calls) :
         HasZeroEpsilon(calls[i].pair) =>
             /\ calls[i].epsilon = RInt(0)
             /\ calls[i].E = RInt(0)
             /\ calls[i].F = RInt(0)
    /\ Opened =>
         \A q \in 1..Len(HeaderIdx) :
             HasZeroEpsilon(q) =>
                 \A j \in 1..Len(Block(q)) :
                     /\ Block(q)[j][3].int = 0 /\ Block(q)[j][3].frac = 0
                     /\ Block(q)[j][4].int = 0 /\ Block(q)[j][4].frac = 0

\* A row was written for a pair of an atom with epsilon 0 and one with
\* epsilon > 0, the mixed sigma not zero.
C6_Witness ==
    \E i \in 1..Len(calls) :
        /\ HasZeroEpsilon(calls[i].pair)
        /\ atoms_list[pairs[calls[i].pair][1]].epsilon > 0
        /\ calls[i].sigma.n > 0
        /\ Len(Block(calls[i].pair)) > 0

\* C7: in no terminal state is the handle open; it is open only inside the
\* with-block.
C7_HandleReleased ==
    /\ pc \in Terminal => f # "open"
    /\ f = "open" => pc \in {"pair", "loop"}

\* A run ended by an error raised while a row was being written, after the
\* file was opened: the handle is closed.
C7_Witness ==
    /\ pc = "error"
    /\ f = "closed"
    /\ Len(calls) > Cardinality({i \in 1..Len(disk) : disk[i][1] = "ROW"})

\* C8: the status lines (the pair count, then the filename) are printed only
\* after every block was written and the file closed; a run ended by an
\* error printed nothing, and the step that raises leaves the file as it is.
C8_StatusAfterSuccess ==
    /\ [](console # <<>> =>
            /\ pc \in {"print2", "done"}
            /\ f = "closed"
            /\ Len(HeaderIdx) = NPairs(Len(atoms_list))
            /\ Len(visited) = NPairs(Len(atoms_list)) * RangeLen(steps + 1)
            /\ console[1] = <<"Computed", NPairs(Len(atoms_list))>>
            /\ Len(console) = 2 => console[2][1] = "Data written to")
    /\ [](pc = "done" => Len(console) = 2)
    /\ [](pc = "error" => console = <<>>)
    /\ [][(pc # "error" /\ pc' = "error") => disk' = disk]_vars

\* A run ended by an error after a header and a row were written: nothing
\* printed, the partial file in place.
C8_Witness ==
    /\ pc = "error"
    /\ console = <<>>
    /\ Len(HeaderIdx) > 0
    /\ Len(disk) > Len(HeaderIdx)
    /\ Len(HeaderIdx) < NPairs(Len(atoms_list))

\* C9: after a successful run the file is the one the configuration
\* determines, whatever it held before (nothing, or what an earlier run,
\* finished or ended by an error, left).
C9_Overwrite == pc = "done" => disk = ExpectedFile

\* A successful second run over the file the first run left, rows included.
C9_Witness ==
    /\ pc = "done"
    /\ prior = "own"
    /\ Len(disk) > Len(HeaderIdx)
    /\ Len(HeaderIdx) > 1

\* C10: a started run ends (step # 0 or not); the data loop of a pair never
\* runs more than max(0, steps+1) iterations and leaves after exactly that
\* many, whatever distances it reached.
C10_Terminates ==
    /\ [][(pc = "loop" /\ pc' = "loop") => k' <= RangeLen(steps + 1)]_vars
    /\ [][(pc = "loop" /\ pc' = "pair") => k = RangeLen(steps + 1)]_vars
    /\ (pc = "start") ~> (pc \in Terminal)

\* A finished run over a grid with a negative step and an end below start
\* that visited several samples.
C10_Witness ==
    /\ pc = "done"
    /\ delta_r < 0
    /\ end_r < start_r
    /\ Len(visited) >= 2

=============================================================================
